---- MODULE Spec2Model ----
(***************************************************************************)
(* A model of the interactive shell in src/src/main.rs: the tokenizer      *)
(* parse_command_line, the path resolver find_executable_in_path, the      *)
(* read/dispatch loop of main and the completer ShellCompleter::complete.  *)
(*                                                                         *)
(* Strings are sequences of one-character strings, so that the tokenizer   *)
(* scans them character by character as the code does.                     *)
(***************************************************************************)
EXTENDS Integers, Sequences, FiniteSets, TLC

\* ------------------------------------------------------------------------
\* Characters
\* ------------------------------------------------------------------------
BS == "\\"
DQ == "\""
SQ == "'"
SP == " "
TAB == "\t"

\* Option<char> quote_state: NoQuote is None, otherwise Some(DQ) or Some(SQ).
NoQuote == "none"

\* Longest input line handed to the tokenizer on its own.
MaxLen == 4

\* The characters input lines of the tokenizer are made of: two ordinary
\* characters and every character the tokenizer treats specially.
Alphabet == {"a", "b", SP, TAB, BS, DQ, SQ}

RECURSIVE SeqsUpTo(_, _)
SeqsUpTo(S, n) ==
    IF n = 0 THEN {<<>>}
    ELSE LET shorter == SeqsUpTo(S, n - 1)
         IN  shorter \cup {Append(s, c) : s \in {t \in shorter : Len(t) = n - 1}, c \in S}

TokInputs == SeqsUpTo(Alphabet, MaxLen)

\* ------------------------------------------------------------------------
\* parse_command_line (main.rs 40-105).  A scanner state is the record
\*   chars        the characters the iterator has not yielded yet
\*   current_arg  the accumulator
\*   quote_state  NoQuote, DQ or SQ
\*   args         the tokens pushed so far
\* Each arm of the match is an operator from the state in which `ch` is
\* Head(chars) to the state after the arm.
\* ------------------------------------------------------------------------
ScanInit(str) ==
    [chars |-> str, current_arg |-> <<>>, quote_state |-> NoQuote, args |-> <<>>]

\* the '\\' arm with the backslash kept outside quotes, as inside double quotes
ArmBackslash_KeptOutsideQuotes(s) ==
    LET rest == Tail(s.chars) IN
    IF s.quote_state = NoQuote /\ rest # <<>>
    THEN [s EXCEPT !.chars = Tail(rest),
                   !.current_arg = s.current_arg \o <<BS, Head(rest)>>]
    ELSE IF s.quote_state = DQ /\ rest # <<>>
    THEN IF Head(rest) = DQ \/ Head(rest) = BS
         THEN [s EXCEPT !.chars = Tail(rest),
                        !.current_arg = Append(s.current_arg, Head(rest))]
         ELSE [s EXCEPT !.chars = Tail(rest),
                        !.current_arg = s.current_arg \o <<BS, Head(rest)>>]
    ELSE IF s.quote_state = NoQuote THEN [s EXCEPT !.chars = rest]
    ELSE [s EXCEPT !.chars = rest,
                   !.current_arg = Append(s.current_arg, BS)]

\* the '\\' arm escaping every character inside double quotes
ArmBackslash_EscapesAllInDoubleQuotes(s) ==
    LET rest == Tail(s.chars) IN
    IF s.quote_state # SQ /\ rest # <<>>
    THEN [s EXCEPT !.chars = Tail(rest),
                   !.current_arg = Append(s.current_arg, Head(rest))]
    ELSE IF s.quote_state = NoQuote THEN [s EXCEPT !.chars = rest]
    ELSE [s EXCEPT !.chars = rest,
                   !.current_arg = Append(s.current_arg, BS)]

\* the '\\' arm escaping the next character inside single quotes too
ArmBackslash_EscapesInSingleQuotes(s) ==
    LET rest == Tail(s.chars) IN
    IF s.quote_state # DQ /\ rest # <<>>
    THEN [s EXCEPT !.chars = Tail(rest),
                   !.current_arg = Append(s.current_arg, Head(rest))]
    ELSE IF s.quote_state = NoQuote THEN [s EXCEPT !.chars = rest]
    ELSE IF s.quote_state = DQ /\ rest # <<>>
    THEN IF Head(rest) = DQ \/ Head(rest) = BS
         THEN [s EXCEPT !.chars = Tail(rest),
                        !.current_arg = Append(s.current_arg, Head(rest))]
         ELSE [s EXCEPT !.chars = Tail(rest),
                        !.current_arg = s.current_arg \o <<BS, Head(rest)>>]
    ELSE [s EXCEPT !.chars = rest,
                   !.current_arg = Append(s.current_arg, BS)]

\* '\\' arm, lines 48-67
ArmBackslash(s) ==
    LET rest == Tail(s.chars) IN
    IF s.quote_state = NoQuote THEN
        IF rest # <<>>
        THEN [s EXCEPT !.chars = Tail(rest),
                       !.current_arg = Append(s.current_arg, Head(rest))]
        ELSE [s EXCEPT !.chars = rest]
    ELSE IF s.quote_state = DQ THEN
        IF rest # <<>>
        THEN IF Head(rest) = DQ \/ Head(rest) = BS
             THEN [s EXCEPT !.chars = Tail(rest),
                            !.current_arg = Append(s.current_arg, Head(rest))]
             ELSE [s EXCEPT !.chars = Tail(rest),
                            !.current_arg = s.current_arg \o <<BS, Head(rest)>>]
        ELSE [s EXCEPT !.chars = rest,
                       !.current_arg = Append(s.current_arg, BS)]
    ELSE [s EXCEPT !.chars = rest,
                   !.current_arg = Append(s.current_arg, BS)]

\* the quote arms keeping the quote character that opens a region
ArmQuote_KeepsOpeningQuote(s, q) ==
    IF s.quote_state = q
    THEN [s EXCEPT !.chars = Tail(s.chars), !.quote_state = NoQuote]
    ELSE IF s.quote_state = NoQuote
    THEN [s EXCEPT !.chars = Tail(s.chars), !.quote_state = q,
                   !.current_arg = Append(s.current_arg, q)]
    ELSE [s EXCEPT !.chars = Tail(s.chars),
                   !.current_arg = Append(s.current_arg, q)]

\* '\"' and '\'' arms, lines 68-76 and 77-85: q is the quote character met
ArmQuote(s, q) ==
    IF s.quote_state = q
    THEN [s EXCEPT !.chars = Tail(s.chars), !.quote_state = NoQuote]
    ELSE IF s.quote_state = NoQuote
    THEN [s EXCEPT !.chars = Tail(s.chars), !.quote_state = q]
    ELSE [s EXCEPT !.chars = Tail(s.chars),
                   !.current_arg = Append(s.current_arg, q)]

\* the whitespace arm without the test of line 89
ArmWhitespace_PushesEmpty(s) ==
    IF s.quote_state # NoQuote
    THEN [s EXCEPT !.chars = Tail(s.chars),
                   !.current_arg = Append(s.current_arg, Head(s.chars))]
    ELSE [s EXCEPT !.chars = Tail(s.chars),
                   !.args = Append(s.args, s.current_arg),
                   !.current_arg = <<>>]

\* the whitespace arm pushing a copy and keeping the accumulator (line 91
\* left out)
ArmWhitespace_KeepsAccumulator(s) ==
    IF s.quote_state # NoQuote
    THEN [s EXCEPT !.chars = Tail(s.chars),
                   !.current_arg = Append(s.current_arg, Head(s.chars))]
    ELSE IF s.current_arg # <<>>
    THEN [s EXCEPT !.chars = Tail(s.chars),
                   !.args = Append(s.args, s.current_arg)]
    ELSE [s EXCEPT !.chars = Tail(s.chars)]

\* ' ' | '\t' arm, lines 86-93
ArmWhitespace(s) ==
    IF s.quote_state # NoQuote
    THEN [s EXCEPT !.chars = Tail(s.chars),
                   !.current_arg = Append(s.current_arg, Head(s.chars))]
    ELSE IF s.current_arg # <<>>
    THEN [s EXCEPT !.chars = Tail(s.chars),
                   !.args = Append(s.args, s.current_arg),
                   !.current_arg = <<>>]
    ELSE [s EXCEPT !.chars = Tail(s.chars)]

\* _ arm, lines 94-96
ArmOther(s) ==
    [s EXCEPT !.chars = Tail(s.chars),
              !.current_arg = Append(s.current_arg, Head(s.chars))]

\* one iteration of the while loop, lines 46-98
ScanStep(s) ==
    LET ch == Head(s.chars) IN
    IF ch = BS THEN ArmBackslash(s)
    ELSE IF ch = DQ THEN ArmQuote(s, DQ)
    ELSE IF ch = SQ THEN ArmQuote(s, SQ)
    ELSE IF ch = SP \/ ch = TAB THEN ArmWhitespace(s)
    ELSE ArmOther(s)

\* lines 100-104 dropping what an unterminated quote collected
FlushArgs_OnlyOutsideQuotes(s) ==
    IF s.current_arg # <<>> /\ s.quote_state = NoQuote
    THEN Append(s.args, s.current_arg) ELSE s.args

\* after the loop, lines 100-104
FlushArgs(s) ==
    IF s.current_arg # <<>> THEN Append(s.args, s.current_arg) ELSE s.args

RECURSIVE ScanAll(_)
ScanAll(s) == IF s.chars = <<>> THEN s ELSE ScanAll(ScanStep(s))

parse_command_line(str) == FlushArgs(ScanAll(ScanInit(str)))

\* the strings of toks with sep between them
RECURSIVE JoinWith(_, _)
JoinWith(toks, sep) ==
    IF toks = <<>> THEN <<>>
    ELSE IF Len(toks) = 1 THEN toks[1]
    ELSE toks[1] \o <<sep>> \o JoinWith(Tail(toks), sep)

\* ------------------------------------------------------------------------
\* Strings of the shell
\* ------------------------------------------------------------------------
S_cd == <<"c", "d">>
S_pwd == <<"p", "w", "d">>
S_type == <<"t", "y", "p", "e">>
S_exit == <<"e", "x", "i", "t">>
S_echo == <<"e", "c", "h", "o">>
S_dotdot == <<".", ".">>
S_tilde == <<"~">>

OP_gt == <<">">>
OP_1gt == <<"1", ">">>
OP_gtgt == <<">", ">">>
OP_1gtgt == <<"1", ">", ">">>
OP_2gt == <<"2", ">">>
OP_2gtgt == <<"2", ">", ">">>

\* the operator tokens of lines 315-320
RedirectOps == {OP_gt, OP_1gt, OP_1gtgt, OP_2gt, OP_2gtgt, OP_gtgt}

\* str::trim (line 22, line 254): leading and trailing whitespace removed
RECURSIVE TrimStart(_)
TrimStart(s) ==
    IF s # <<>> /\ Head(s) \in {SP, TAB} THEN TrimStart(Tail(s)) ELSE s

RECURSIVE TrimEnd(_)
TrimEnd(s) ==
    IF s # <<>> /\ s[Len(s)] \in {SP, TAB}
    THEN TrimEnd(SubSeq(s, 1, Len(s) - 1)) ELSE s

Trim(s) == TrimEnd(TrimStart(s))

\* the pieces of s between the occurrences of sep, empty pieces included
RECURSIVE SplitOn(_, _, _)
SplitOn(s, sep, piece) ==
    IF s = <<>> THEN <<piece>>
    ELSE IF Head(s) = sep THEN <<piece>> \o SplitOn(Tail(s), sep, <<>>)
    ELSE SplitOn(Tail(s), sep, Append(piece, Head(s)))

\* env::split_paths (line 21): PATH cut at every ':'
SplitPaths(paths) == SplitOn(paths, ":", <<>>)

\* Path::join (lines 22, 296): an absolute item replaces the base
PathJoin(base, item) ==
    IF item # <<>> /\ Head(item) = "/" THEN item
    ELSE IF base = <<>> THEN item
    ELSE IF base[Len(base)] = "/" THEN base \o item
    ELSE base \o <<"/">> \o item

\* PathBuf::pop (line 288) on an absolute path without a trailing separator:
\* the last component is cut off, the root stays as it is
RECURSIVE LastSlash(_)
LastSlash(p) ==
    IF p = <<>> THEN 0
    ELSE IF p[Len(p)] = "/" THEN Len(p)
    ELSE LastSlash(SubSeq(p, 1, Len(p) - 1))

PathPop(p) ==
    LET i == LastSlash(p) IN
    IF i <= 1 THEN SubSeq(p, 1, i) ELSE SubSeq(p, 1, i - 1)

\* ------------------------------------------------------------------------
\* The file system.  A file system is a function from the absolute paths
\* that exist to [kind: "dir" or "file", exec: some bit of 0o111 is set,
\* data: what was written to the file].  What a child process writes to a
\* stream is one chunk [stream, argv].
\* ------------------------------------------------------------------------
NoEnt == <<>>

Root == <<"/">>

RECURSIVE JoinComps(_)
JoinComps(comps) ==
    IF comps = <<>> THEN <<>> ELSE <<"/">> \o Head(comps) \o JoinComps(Tail(comps))

\* the absolute path of a list of components
CompPath(comps) == IF comps = <<>> THEN Root ELSE JoinComps(comps)

PathComps(p) == SelectSeq(SplitOn(p, "/", <<>>), LAMBDA c : c # <<>>)

\* path resolution as the kernel does it, one component at a time, from the
\* node at the components cur
RECURSIVE Walk(_, _, _)
Walk(f, cur, comps) ==
    IF comps = <<>> THEN CompPath(cur)
    ELSE IF f[CompPath(cur)].kind # "dir" THEN NoEnt
    ELSE LET c == Head(comps) IN
         IF c = <<>> \/ c = <<".">> THEN Walk(f, cur, Tail(comps))
         ELSE IF c = S_dotdot
         THEN Walk(f, IF cur = <<>> THEN cur ELSE SubSeq(cur, 1, Len(cur) - 1), Tail(comps))
         ELSE IF CompPath(Append(cur, c)) \in DOMAIN f
         THEN Walk(f, Append(cur, c), Tail(comps))
         ELSE NoEnt

\* the canonical path of the node `path` names in directory dir, or NoEnt
Resolve(f, dir, path) ==
    IF path = <<>> THEN NoEnt
    ELSE IF Head(path) = "/" THEN Walk(f, <<>>, SplitOn(path, "/", <<>>))
    ELSE Walk(f, PathComps(dir), SplitOn(path, "/", <<>>))

\* Path::is_dir (line 297)
IsDir(f, dir, path) ==
    LET r == Resolve(f, dir, path) IN r # NoEnt /\ f[r].kind = "dir"

IsRegularFile(f, dir, path) ==
    LET r == Resolve(f, dir, path) IN r # NoEnt /\ f[r].kind = "file"

\* fs::metadata(..) is Ok and permissions.mode() & 0o111 != 0 (lines 24-27)
ExecBitSet(f, dir, path) ==
    LET r == Resolve(f, dir, path) IN r # NoEnt /\ f[r].exec

\* find_executable_in_path, lines 17-38, in the file system f with working
\* directory dir: the first joined path that passes the test, or NoEnt.
\* path_var is the value of PATH, or NoEnt when it is not set.
\* the search going on after a match: the last matching directory wins
RECURSIVE FirstExecutable_LastWins(_, _, _, _)
FirstExecutable_LastWins(f, dir, entries, name) ==
    IF entries = <<>> THEN NoEnt
    ELSE LET program_path == PathJoin(Head(entries), Trim(name))
             later == FirstExecutable_LastWins(f, dir, Tail(entries), name)
         IN  IF later # NoEnt THEN later
             ELSE IF ExecBitSet(f, dir, program_path) THEN program_path
             ELSE NoEnt

RECURSIVE FirstExecutable(_, _, _, _)
FirstExecutable(f, dir, entries, name) ==
    IF entries = <<>> THEN NoEnt
    ELSE LET program_path == PathJoin(Head(entries), Trim(name)) IN
         IF ExecBitSet(f, dir, program_path) THEN program_path
         ELSE FirstExecutable(f, dir, Tail(entries), name)

find_executable_in_path(f, dir, path_var, program_name) ==
    IF path_var = NoEnt THEN NoEnt
    ELSE FirstExecutable(f, dir, SplitPaths(path_var), program_name)

\* lines 313-327: the index of the first operator token that has a token
\* after it, 0 when there is none
RECURSIVE RedirectPosFrom(_, _)
RedirectPosFrom(a, i) ==
    IF i > Len(a) THEN 0
    ELSE IF a[i] \in RedirectOps /\ i + 1 <= Len(a) THEN i
    ELSE RedirectPosFrom(a, i + 1)

redirect_pos(a) == RedirectPosFrom(a, 1)

\* lines 329-333
cmd_args(a) ==
    IF redirect_pos(a) # 0 THEN SubSeq(a, 1, redirect_pos(a) - 1) ELSE a

\* lines 338-340 with "1>>" forgotten
is_append_Without1(redirect_type) == redirect_type \in {OP_gtgt, OP_2gtgt}

\* lines 338-340
is_append(redirect_type) == redirect_type \in {OP_gtgt, OP_1gtgt, OP_2gtgt}

\* line 349
ToStdout(redirect_type) == redirect_type \in {OP_1gt, OP_gt, OP_gtgt, OP_1gtgt}

\* OpenOptions ... .create(true).open(filename), lines 341-346: the path of
\* the file that is opened or created, NoEnt when the open fails (the name
\* is a directory, or the directory it would be created in does not exist)
OpenPath(f, dir, filename) ==
    LET r == Resolve(f, dir, filename)
        comps == PathComps(filename)
        last == comps[Len(comps)]
        parent == IF Head(filename) = "/"
                  THEN Walk(f, <<>>, SubSeq(comps, 1, Len(comps) - 1))
                  ELSE Walk(f, PathComps(dir), SubSeq(comps, 1, Len(comps) - 1))
    IN  IF r # NoEnt THEN (IF f[r].kind = "file" THEN r ELSE NoEnt)
        ELSE IF comps = <<>> \/ filename[Len(filename)] = "/" THEN NoEnt
        ELSE IF last = <<".">> \/ last = S_dotdot THEN NoEnt
        ELSE IF parent = NoEnt THEN NoEnt
        ELSE IF f[parent].kind # "dir" THEN NoEnt
        ELSE PathJoin(parent, last)

\* the file system after the open: the file exists, emptied unless appending
AfterOpen(f, path, append) ==
    IF path \in DOMAIN f
    THEN IF append THEN f ELSE [f EXCEPT ![path].data = <<>>]
    ELSE [q \in DOMAIN f \cup {path} |->
            IF q = path THEN [kind |-> "file", exec |-> FALSE, data |-> <<>>]
            ELSE f[q]]

\* what a child started with the arguments argv writes to a stream
Chunk(stream, argv) == [stream |-> stream, argv |-> argv]

\* the file system after the child wrote its chunk to the open file
AfterWrite(f, path, chunk) == [f EXCEPT ![path].data = Append(@, chunk)]

\* ------------------------------------------------------------------------
\* State
\* ------------------------------------------------------------------------
VARIABLES
    \* one run of parse_command_line
    input,          \* the &str argument
    chars,          \* the rest of the peekable iterator
    current_arg,    \* the accumulator
    quote_state,    \* NoQuote, DQ or SQ
    args,           \* the Vec<String> built so far, the result once tpc = "done"
    tpc,            \* "scan" (inside the while loop) or "done" (returned); "idle"
                    \* when the tokenizer is not run on its own
    \* the read/dispatch loop of main
    pc,             \* "Reading" or "Terminated" ("off" when main does not run)
    cause,          \* why the process ended: "exit", "eof", "read_error", "panic"
    cwd,            \* the working directory of the process
    fs,             \* the file system
    env_HOME,       \* the value of HOME, NoEnt when it is not set
    env_PATH,       \* the value of PATH, NoEnt when it is not set
    line,           \* what the last readline returned
    parsed_args,    \* the tokens of that line (line 255)
    out,            \* what the shell printed to stdout for that line
    err,            \* what the shell printed to stderr for that line
    child,          \* the child process launched for that line
    \* one call of ShellCompleter::complete
    comp_line,      \* the &str argument line
    cursor,         \* the argument pos, a byte offset into line
    start,          \* the first component of the result
    candidates,     \* the second component of the result
    cpc             \* "called", "returned" or "panicked"; "off" when
                    \* complete is not called

tokvars == <<input, chars, current_arg, quote_state, args, tpc>>

replvars == <<pc, cause, cwd, fs, env_HOME, env_PATH, line, parsed_args, out, err, child>>

compvars == <<comp_line, cursor, start, candidates, cpc>>

vars == <<input, chars, current_arg, quote_state, args, tpc,
          pc, cause, cwd, fs, env_HOME, env_PATH, line, parsed_args,
          out, err, child,
          comp_line, cursor, start, candidates, cpc>>

ScanState ==
    [chars |-> chars, current_arg |-> current_arg,
     quote_state |-> quote_state, args |-> args]

SetScanState(s) ==
    /\ chars' = s.chars
    /\ current_arg' = s.current_arg
    /\ quote_state' = s.quote_state
    /\ args' = s.args

\* ------------------------------------------------------------------------
\* The world main runs in
\* ------------------------------------------------------------------------
P_h == <<"/", "h">>
P_b == <<"/", "b">>
P_bp == <<"/", "b", "/", "p">>
P_bx == <<"/", "b", "/", "x">>
P_hp == <<"/", "h", "/", "p">>
P_hf == <<"/", "h", "/", "f">>
P_hg == <<"/", "h", "/", "g">>
P_q == <<"/", "q">>
P_hx == <<"/", "h", "/", "x">>
P_becho == P_b \o <<"/">> \o S_echo

Dir == [kind |-> "dir", exec |-> TRUE, data |-> <<>>]
Program == [kind |-> "file", exec |-> TRUE, data |-> <<>>]
PlainFile == [kind |-> "file", exec |-> FALSE, data |-> <<>>]

\* /h and /b are directories, /b/p is a program, /b/x a directory inside a
\* PATH directory (mode 0755), /h/p a file without execute permission, /h/x
\* a program of the name of the directory /b/x, /b/echo a program of the
\* name of a builtin
InitialFs ==
    (Root :> Dir) @@ (P_h :> Dir) @@ (P_b :> Dir) @@ (P_bx :> Dir)
        @@ (P_bp :> Program) @@ (P_hp :> PlainFile)
        @@ (P_hx :> Program) @@ (P_becho :> Program)

\* the longest content of a file, in chunks
MaxFileLen == 2

Line(words) == JoinWith(words, SP)

CdLines ==
    << Line(<<S_cd>>), Line(<<S_cd, S_dotdot>>), Line(<<S_cd, S_tilde>>),
       Line(<<S_cd, <<"h">> >>), Line(<<S_cd, P_b>>), Line(<<S_cd, P_q>>),
       Line(<<S_cd, P_bp>>), Line(<<S_cd, <<"q">> >>) >>

TypeLines ==
    << Line(<<S_type>>), Line(<<S_type, S_cd>>), Line(<<S_type, <<"p">> >>),
       Line(<<S_type, <<"x">> >>), Line(<<S_type, <<"q">> >>),
       Line(<<S_type, S_echo>>) >>

ExternalLines ==
    << Line(<<<<"q">>, <<"a">> >>),
       Line(<<<<"x">> >>),
       Line(<<<<"p">>, <<"a">> >>),
       Line(<<<<"p">>, <<"a">>, OP_gt>>),
       Line(<<<<"p">>, <<"a">>, OP_gt, P_hf>>),
       Line(<<<<"p">>, <<"a">>, OP_gtgt, P_hf>>),
       Line(<<<<"p">>, <<"a">>, OP_1gt, P_hf>>),
       Line(<<<<"p">>, <<"a">>, OP_1gtgt, P_hf>>),
       Line(<<<<"p">>, <<"a">>, OP_2gt, P_hf>>),
       Line(<<<<"p">>, <<"a">>, OP_2gtgt, P_hf>>),
       Line(<<<<"p">>, <<"a">>, OP_gt, P_hf, <<"b">> >>),
       Line(<<<<"p">>, <<"a">>, OP_gtgt, P_hf, OP_gt, P_hg>>),
       Line(<<<<"p">>, <<"a">>, OP_gt, P_h>>),
       Line(<<<<"x">>, <<"a">>, OP_gt, P_hf>>),
       Line(<<S_echo, <<"a">> >>) >>

\* the lines readline returns, numbered
ReplLines ==
    << <<>>, <<SP, TAB>>, <<SP>> \o S_pwd \o <<SP>>, S_pwd, S_exit >>
        \o CdLines \o TypeLines \o ExternalLines

NoOut == [kind |-> "none", name |-> <<>>, path |-> <<>>]
NoErr == [kind |-> "none", name |-> <<>>]
NoChild ==
    [path |-> NoEnt, arg0 |-> <<>>, args |-> <<>>, stdout |-> NoEnt, stderr |-> NoEnt]
NoLine == <<"\n">>

ReplOff ==
    /\ pc = "off"
    /\ cause = "none"
    /\ cwd = Root
    /\ fs = InitialFs
    /\ env_HOME = NoEnt
    /\ env_PATH = NoEnt
    /\ line = NoLine
    /\ parsed_args = <<>>
    /\ out = NoOut
    /\ err = NoErr
    /\ child = NoChild

CompOff ==
    /\ comp_line = <<>>
    /\ cursor = 0
    /\ start = 0
    /\ candidates = <<>>
    /\ cpc = "off"

Init ==
    /\ CompOff
    /\ input = <<>>
    /\ chars = <<>>
    /\ current_arg = <<>>
    /\ quote_state = NoQuote
    /\ args = <<>>
    /\ tpc = "idle"
    /\ pc = "Reading"
    /\ cause = "none"
    /\ cwd = P_h
    /\ fs = InitialFs
    /\ env_HOME \in {NoEnt, P_h, P_q}
    /\ env_PATH \in {NoEnt, P_b, P_h \o <<":">> \o P_b}
    /\ line = NoLine
    /\ parsed_args = <<>>
    /\ out = NoOut
    /\ err = NoErr
    /\ child = NoChild

\* ------------------------------------------------------------------------
\* main, lines 248-388: one action is one turn of the loop
\* ------------------------------------------------------------------------
\* lines 254-255 for every line readline can return
RECURSIVE ParseEach(_)
ParseEach(ls) ==
    IF ls = <<>> THEN <<>>
    ELSE <<parse_command_line(Trim(Head(ls)))>> \o ParseEach(Tail(ls))

ParsedLines == ParseEach(ReplLines)

tokens_of_line(n) == ParsedLines[n]

\* readline returned Ok(ReplLines[n]) and the first token of the line is in names
ReadCommand(n, names) ==
    /\ pc = "Reading"
    /\ tokens_of_line(n) # <<>>
    /\ tokens_of_line(n)[1] \in names

\* lines 256-258
EmptyLine ==
    \E n \in DOMAIN ReplLines :
        /\ pc = "Reading"
        /\ tokens_of_line(n) = <<>>
        /\ line' = ReplLines[n]
        /\ parsed_args' = tokens_of_line(n)
        /\ out' = NoOut /\ err' = NoErr /\ child' = NoChild
        /\ UNCHANGED <<pc, cause, cwd, fs, env_HOME, env_PATH, tokvars, compvars>>

\* line 268 with "echo" forgotten
Builtins_WithoutEcho == {S_exit, S_type, S_pwd, S_cd}

\* line 268
Builtins == {S_echo, S_exit, S_type, S_pwd, S_cd}

\* lines 262-276
TypeCommand ==
    \E n \in DOMAIN ReplLines :
        /\ ReadCommand(n, {S_type})
        /\ LET a == Tail(tokens_of_line(n)) IN
           IF a = <<>> THEN out' = NoOut
           ELSE LET type_item == a[1]
                    path == find_executable_in_path(fs, cwd, env_PATH, type_item)
                IN  IF type_item \in Builtins
                    THEN out' = [kind |-> "builtin", name |-> type_item, path |-> <<>>]
                    ELSE IF path # NoEnt
                    THEN out' = [kind |-> "is", name |-> type_item, path |-> path]
                    ELSE out' = [kind |-> "not found", name |-> type_item, path |-> <<>>]
        /\ line' = ReplLines[n]
        /\ parsed_args' = tokens_of_line(n)
        /\ err' = NoErr /\ child' = NoChild
        /\ UNCHANGED <<pc, cause, cwd, fs, env_HOME, env_PATH, tokvars, compvars>>

\* lines 277-279
PwdCommand ==
    \E n \in DOMAIN ReplLines :
        /\ ReadCommand(n, {S_pwd})
        /\ line' = ReplLines[n]
        /\ parsed_args' = tokens_of_line(n)
        /\ out' = [kind |-> "pwd", name |-> <<>>, path |-> cwd]
        /\ err' = NoErr /\ child' = NoChild
        /\ UNCHANGED <<pc, cause, cwd, fs, env_HOME, env_PATH, tokvars, compvars>>

\* a failed unwrap(): the thread panics and the process ends
Panic ==
    /\ pc' = "Terminated"
    /\ cause' = "panic"
    /\ err' = [kind |-> "panic", name |-> <<>>]
    /\ UNCHANGED cwd

\* env::set_current_dir(path).unwrap(), lines 289, 293, 298
SetCurrentDir(path) ==
    IF IsDir(fs, cwd, path)
    THEN /\ cwd' = Resolve(fs, cwd, path)
         /\ err' = NoErr
         /\ UNCHANGED <<pc, cause>>
    ELSE Panic

\* lines 280-304 with a `cd` without an argument going to HOME
CdCommand_NoArgGoesHome ==
    \E n \in DOMAIN ReplLines :
        /\ ReadCommand(n, {S_cd})
        /\ LET a == Tail(tokens_of_line(n)) IN
           IF a = <<>>
           THEN IF env_HOME = NoEnt THEN Panic ELSE SetCurrentDir(env_HOME)
           ELSE LET cd_item == a[1] IN
                IF cd_item = S_dotdot THEN SetCurrentDir(PathPop(cwd))
                ELSE IF cd_item = S_tilde
                THEN IF env_HOME = NoEnt THEN Panic ELSE SetCurrentDir(env_HOME)
                ELSE LET new_path == PathJoin(cwd, cd_item) IN
                     IF IsDir(fs, cwd, new_path) THEN SetCurrentDir(new_path)
                     ELSE /\ err' = [kind |-> "cd: No such file or directory",
                                     name |-> cd_item]
                          /\ UNCHANGED <<pc, cause, cwd>>
        /\ line' = ReplLines[n]
        /\ parsed_args' = tokens_of_line(n)
        /\ out' = NoOut /\ child' = NoChild
        /\ UNCHANGED <<fs, env_HOME, env_PATH, tokvars, compvars>>

\* lines 280-304
CdCommand ==
    \E n \in DOMAIN ReplLines :
        /\ ReadCommand(n, {S_cd})
        /\ LET a == Tail(tokens_of_line(n)) IN
           IF a = <<>> THEN err' = NoErr /\ UNCHANGED <<pc, cause, cwd>>
           ELSE LET cd_item == a[1] IN
                IF cd_item = S_dotdot THEN SetCurrentDir(PathPop(cwd))
                ELSE IF cd_item = S_tilde
                THEN IF env_HOME = NoEnt THEN Panic ELSE SetCurrentDir(env_HOME)
                ELSE LET new_path == PathJoin(cwd, cd_item) IN
                     IF IsDir(fs, cwd, new_path) THEN SetCurrentDir(new_path)
                     ELSE /\ err' = [kind |-> "cd: No such file or directory",
                                     name |-> cd_item]
                          /\ UNCHANGED <<pc, cause, cwd>>
        /\ line' = ReplLines[n]
        /\ parsed_args' = tokens_of_line(n)
        /\ out' = NoOut /\ child' = NoChild
        /\ UNCHANGED <<fs, env_HOME, env_PATH, tokvars, compvars>>

\* lines 305-307
ExitCommand ==
    \E n \in DOMAIN ReplLines :
        /\ ReadCommand(n, {S_exit})
        /\ line' = ReplLines[n]
        /\ parsed_args' = tokens_of_line(n)
        /\ pc' = "Terminated"
        /\ cause' = "exit"
        /\ out' = NoOut /\ err' = NoErr /\ child' = NoChild
        /\ UNCHANGED <<cwd, fs, env_HOME, env_PATH, tokvars, compvars>>

\* Command::status (line 362) starts the program: it fails for a path that
\* is not a regular file
Launches(program_path) == IsRegularFile(fs, cwd, program_path)

\* lines 337-371 with the `continue` of line 357 forgotten: after a failed
\* open the child is started all the same, with no stream redirected
RunRedirected_LaunchesAfterFailedOpen(command, a, program_path, pos, file) ==
    LET filename == a[pos + 1]
        redirect_type == a[pos]
        stream == IF ToStdout(redirect_type) THEN "stdout" ELSE "stderr"
    IN  IF file = NoEnt
        THEN /\ err' = [kind |-> "Error creating file", name |-> filename]
             /\ child' = [path |-> program_path, arg0 |-> command,
                          args |-> cmd_args(a),
                          stdout |-> NoEnt, stderr |-> NoEnt]
             /\ fs' = fs
        ELSE \E opened \in {AfterOpen(fs, file, is_append(redirect_type))} :
             IF Launches(program_path)
             THEN /\ Len(opened[file].data) < MaxFileLen
                  /\ err' = NoErr
                  /\ child' = [path |-> program_path, arg0 |-> command,
                               args |-> cmd_args(a),
                               stdout |-> IF stream = "stdout" THEN file ELSE NoEnt,
                               stderr |-> IF stream = "stderr" THEN file ELSE NoEnt]
                  /\ fs' = AfterWrite(opened, file, Chunk(stream, cmd_args(a)))
             ELSE /\ err' = [kind |-> "Error executing", name |-> command]
                  /\ child' = NoChild
                  /\ fs' = opened

\* lines 337-371: the redirection file is opened, then the child is started
RunRedirected(command, a, program_path, pos, file) ==
    LET filename == a[pos + 1]
        redirect_type == a[pos]
        stream == IF ToStdout(redirect_type) THEN "stdout" ELSE "stderr"
    IN  IF file = NoEnt
        THEN /\ err' = [kind |-> "Error creating file", name |-> filename]
             /\ child' = NoChild
             /\ fs' = fs
        ELSE \E opened \in {AfterOpen(fs, file, is_append(redirect_type))} :
             IF Launches(program_path)
             THEN /\ Len(opened[file].data) < MaxFileLen
                  /\ err' = NoErr
                  /\ child' = [path |-> program_path, arg0 |-> command,
                               args |-> cmd_args(a),
                               stdout |-> IF stream = "stdout" THEN file ELSE NoEnt,
                               stderr |-> IF stream = "stderr" THEN file ELSE NoEnt]
                  /\ fs' = AfterWrite(opened, file, Chunk(stream, cmd_args(a)))
             ELSE /\ err' = [kind |-> "Error executing", name |-> command]
                  /\ child' = NoChild
                  /\ fs' = opened

\* lines 362-367 without a redirection
RunPlain(command, a, program_path) ==
    /\ fs' = fs
    /\ IF Launches(program_path)
       THEN /\ err' = NoErr
            /\ child' = [path |-> program_path, arg0 |-> command,
                         args |-> cmd_args(a),
                         stdout |-> NoEnt, stderr |-> NoEnt]
       ELSE /\ err' = [kind |-> "Error executing", name |-> command]
            /\ child' = NoChild

\* lines 308-372
ExternalCommand ==
    \E n \in DOMAIN ReplLines :
        /\ pc = "Reading"
        /\ tokens_of_line(n) # <<>>
        /\ tokens_of_line(n)[1] \notin {S_type, S_pwd, S_cd, S_exit}
        /\ \E command \in {tokens_of_line(n)[1]}, a \in {Tail(tokens_of_line(n))} :
           \E program_path \in {find_executable_in_path(fs, cwd, env_PATH, command)},
              pos \in {redirect_pos(a)} :
                IF program_path = NoEnt
                THEN /\ err' = [kind |-> "command not found", name |-> command]
                     /\ child' = NoChild
                     /\ fs' = fs
                ELSE IF pos = 0
                THEN RunPlain(command, a, program_path)
                ELSE \E file \in {OpenPath(fs, cwd, a[pos + 1])} :
                        RunRedirected(command, a, program_path, pos, file)
        /\ line' = ReplLines[n]
        /\ parsed_args' = tokens_of_line(n)
        /\ out' = NoOut
        /\ UNCHANGED <<pc, cause, cwd, env_HOME, env_PATH, tokvars, compvars>>

\* lines 375-378
Interrupted ==
    /\ pc = "Reading"
    /\ line' = NoLine
    /\ parsed_args' = <<>>
    /\ out' = [kind |-> "^C", name |-> <<>>, path |-> <<>>]
    /\ err' = NoErr /\ child' = NoChild
    /\ UNCHANGED <<pc, cause, cwd, fs, env_HOME, env_PATH, tokvars, compvars>>

\* lines 379-382
Eof ==
    /\ pc = "Reading"
    /\ line' = NoLine
    /\ parsed_args' = <<>>
    /\ pc' = "Terminated"
    /\ cause' = "eof"
    /\ out' = [kind |-> "^D", name |-> <<>>, path |-> <<>>]
    /\ err' = NoErr /\ child' = NoChild
    /\ UNCHANGED <<cwd, fs, env_HOME, env_PATH, tokvars, compvars>>

\* lines 383-386
ReadError ==
    /\ pc = "Reading"
    /\ line' = NoLine
    /\ parsed_args' = <<>>
    /\ pc' = "Terminated"
    /\ cause' = "read_error"
    /\ out' = NoOut
    /\ err' = [kind |-> "Error", name |-> <<>>]
    /\ child' = NoChild
    /\ UNCHANGED <<cwd, fs, env_HOME, env_PATH, tokvars, compvars>>

Next ==
    \/ EmptyLine
    \/ TypeCommand
    \/ PwdCommand
    \/ CdCommand
    \/ ExitCommand
    \/ ExternalCommand
    \/ Interrupted
    \/ Eof
    \/ ReadError

Spec == Init /\ [][Next]_vars

\* ------------------------------------------------------------------------
\* The tokenizer run on every line of at most MaxLen characters
\* ------------------------------------------------------------------------
TokInit ==
    /\ input \in TokInputs
    /\ chars = input
    /\ current_arg = <<>>
    /\ quote_state = NoQuote
    /\ args = <<>>
    /\ tpc = "scan"
    /\ ReplOff
    /\ CompOff

Scanning == tpc = "scan" /\ chars # <<>>

ScanBackslash ==
    /\ Scanning /\ Head(chars) = BS
    /\ SetScanState(ScanStep(ScanState))
    /\ UNCHANGED <<input, tpc, replvars, compvars>>

ScanDoubleQuote ==
    /\ Scanning /\ Head(chars) = DQ
    /\ SetScanState(ScanStep(ScanState))
    /\ UNCHANGED <<input, tpc, replvars, compvars>>

ScanSingleQuote ==
    /\ Scanning /\ Head(chars) = SQ
    /\ SetScanState(ScanStep(ScanState))
    /\ UNCHANGED <<input, tpc, replvars, compvars>>

ScanWhitespace ==
    /\ Scanning /\ Head(chars) \in {SP, TAB}
    /\ SetScanState(ScanStep(ScanState))
    /\ UNCHANGED <<input, tpc, replvars, compvars>>

ScanOther ==
    /\ Scanning /\ Head(chars) \notin {BS, DQ, SQ, SP, TAB}
    /\ SetScanState(ScanStep(ScanState))
    /\ UNCHANGED <<input, tpc, replvars, compvars>>

\* the loop has ended: lines 100-104
ScanReturn ==
    /\ tpc = "scan" /\ chars = <<>>
    /\ args' = FlushArgs(ScanState)
    /\ tpc' = "done"
    /\ UNCHANGED <<input, chars, current_arg, quote_state, replvars, compvars>>

TokNext ==
    \/ ScanBackslash
    \/ ScanDoubleQuote
    \/ ScanSingleQuote
    \/ ScanWhitespace
    \/ ScanOther
    \/ ScanReturn

TokSpec == TokInit /\ [][TokNext]_vars

\* ------------------------------------------------------------------------
\* ShellCompleter::complete (main.rs 112-221).  Offsets into a &str are byte
\* offsets, so a line is a sequence of characters with their widths in
\* UTF-8.
\* ------------------------------------------------------------------------
\* U+00A0, a character of White_Space that takes two bytes in UTF-8
NBSP == "nbsp"

\* char::is_whitespace (line 120) on the characters of the model
is_whitespace(c) == c \in {SP, TAB, NBSP}

\* the length of a character in UTF-8
Width(c) == IF c = NBSP THEN 2 ELSE 1

RECURSIVE ByteLen(_)
ByteLen(s) == IF s = <<>> THEN 0 ELSE Width(Head(s)) + ByteLen(Tail(s))

\* the byte offset after the first k characters of s
ByteOffset(s, k) == ByteLen(SubSeq(s, 1, k))

\* str::is_char_boundary
IsCharBoundary(s, n) == \E k \in 0..Len(s) : ByteOffset(s, k) = n

\* the number of characters before the char boundary n
CharsBefore(s, n) == CHOOSE k \in 0..Len(s) : ByteOffset(s, k) = n

\* &s[from..to] for char boundaries from <= to (lines 120, 121, 123)
Slice(s, from, to) == SubSeq(s, CharsBefore(s, from) + 1, CharsBefore(s, to))

\* the index of the last whitespace character of s, 0 when there is none
RECURSIVE LastWhitespace(_)
LastWhitespace(s) ==
    IF s = <<>> THEN 0
    ELSE IF is_whitespace(s[Len(s)]) THEN Len(s)
    ELSE LastWhitespace(SubSeq(s, 1, Len(s) - 1))

\* line 120: rfind gives the byte index at which the last whitespace
\* character begins, and start is that index plus one
WordStart(ln, at) ==
    LET head == Slice(ln, 0, at)
        k == LastWhitespace(head)
    IN  IF k = 0 THEN 0 ELSE ByteOffset(head, k - 1) + 1

\* str::trim_end, str::trim (lines 124-126)
RECURSIVE TrimEndWs(_)
TrimEndWs(s) ==
    IF s # <<>> /\ is_whitespace(s[Len(s)])
    THEN TrimEndWs(SubSeq(s, 1, Len(s) - 1)) ELSE s

RECURSIVE TrimStartWs(_)
TrimStartWs(s) ==
    IF s # <<>> /\ is_whitespace(Head(s)) THEN TrimStartWs(Tail(s)) ELSE s

\* lines 124-126
is_command_pos(before_word) ==
    LET t == TrimEndWs(before_word) IN
    \/ TrimStartWs(t) = <<>>
    \/ t # <<>> /\ t[Len(t)] = "|"
    \/ t # <<>> /\ t[Len(t)] = ";"

\* str::contains on a character (lines 163, 187)
HasChar(s, c) == \E i \in 1..Len(s) : s[i] = c

\* str::starts_with (lines 131, 144, 185)
StartsWith(s, prefix) ==
    Len(prefix) <= Len(s) /\ SubSeq(s, 1, Len(prefix)) = prefix

Pair(display, replacement) == [display |-> display, replacement |-> replacement]

\* line 129
builtins == <<S_echo, S_exit, S_type, S_pwd, S_cd>>

\* lines 130-137: the builtins that start with the word, in the order of
\* the array
RECURSIVE PushBuiltins(_, _, _)
PushBuiltins(cands, names, w) ==
    IF names = <<>> THEN cands
    ELSE PushBuiltins(
            IF StartsWith(Head(names), w)
            THEN Append(cands, Pair(Head(names), Head(names) \o <<SP>>))
            ELSE cands,
            Tail(names), w)

\* the paths of the entries of the directory d
DirEntries(f, d) == {p \in DOMAIN f : p # Root /\ PathPop(p) = d}

\* DirEntry::file_name (lines 143, 184)
EntryName(p) == SubSeq(p, LastSlash(p) + 1, Len(p))

\* the sequences that list every element of S once
RECURSIVE Orderings(_)
Orderings(S) ==
    IF S = {} THEN {<<>>}
    ELSE UNION {{<<x>> \o t : t \in Orderings(S \ {x})} : x \in S}

\* fs::read_dir(path) (lines 141, 182) and the iteration over it: the
\* entries come in an order read_dir does not specify; nothing is iterated
\* when the path is not a directory
ReadDir(f, dir, path) ==
    IF IsDir(f, dir, path) THEN Orderings(DirEntries(f, Resolve(f, dir, path)))
    ELSE {<<>>}

\* lines 143-156 with the test of line 148 left out
PushExecutable_NoDedup(f, cands, entry, w) ==
    LET file_name == EntryName(entry) IN
    IF StartsWith(file_name, w) /\ f[entry].exec
    THEN Append(cands, Pair(file_name, file_name \o <<SP>>))
    ELSE cands

\* lines 143-156: one entry of a PATH directory
PushExecutable(f, cands, entry, w) ==
    LET file_name == EntryName(entry) IN
    IF /\ StartsWith(file_name, w)
       /\ f[entry].exec
       /\ ~\E i \in 1..Len(cands) : cands[i].display = file_name
    THEN Append(cands, Pair(file_name, file_name \o <<SP>>))
    ELSE cands

\* lines 142-158: the entries of one PATH directory
RECURSIVE PushListing(_, _, _, _)
PushListing(f, cands, listing, w) ==
    IF listing = <<>> THEN cands
    ELSE PushListing(f, PushExecutable(f, cands, Head(listing), w), Tail(listing), w)

\* lines 140-160: the candidate lists the loop over the PATH directories
\* can end with, one for every order of the directory listings
RECURSIVE PushPathDirs(_, _, _, _, _)
PushPathDirs(f, dir, cands, paths, w) ==
    IF paths = <<>> THEN {cands}
    ELSE UNION {PushPathDirs(f, dir, PushListing(f, cands, listing, w), Tail(paths), w) :
                    listing \in ReadDir(f, dir, Head(paths))}

\* lines 128-161
CommandCandidates(f, dir, path_var, w) ==
    LET named == PushBuiltins(<<>>, builtins, w) IN
    IF path_var = NoEnt THEN {named}
    ELSE PushPathDirs(f, dir, named, SplitPaths(path_var), w)

\* Option::None of Path::parent and Path::file_name
NonePath == <<"None">>

\* str::trim_end_matches('/') (line 191)
RECURSIVE TrimEndSlashes(_)
TrimEndSlashes(s) ==
    IF s # <<>> /\ s[Len(s)] = "/"
    THEN TrimEndSlashes(SubSeq(s, 1, Len(s) - 1)) ELSE s

\* Path::file_name (line 171) of a path without "." components: the last
\* component, separators after it dropped; None for the root and for ".."
PathFileName(w) ==
    LET t == TrimEndSlashes(w)
        last == SubSeq(t, LastSlash(t) + 1, Len(t))
    IN  IF t = <<>> \/ last = S_dotdot THEN NonePath ELSE last

\* Path::parent (line 165) of a path without "." components: the path
\* without its last component and the separators around it; None for the
\* root and the empty path
PathParent(w) ==
    LET t == TrimEndSlashes(w)
        before == SubSeq(t, 1, LastSlash(t))
    IN  IF t = <<>> THEN NonePath
        ELSE IF before = <<>> THEN <<>>
        ELSE IF TrimEndSlashes(before) = <<>> THEN Root
        ELSE TrimEndSlashes(before)

DotSlash == <<".", "/">>

\* lines 163-180
DirAndPrefix(w) ==
    IF HasChar(w, "/") /\ PathParent(w) # NonePath
    THEN [dir_path |-> IF PathParent(w) = <<>> THEN DotSlash ELSE PathParent(w),
          file_prefix |-> IF PathFileName(w) = NonePath THEN <<>> ELSE PathFileName(w)]
    ELSE [dir_path |-> DotSlash, file_prefix |-> w]

\* lines 186-212: the candidate of one entry
ArgumentPair(f, w, dir_path, entry) ==
    LET file_name == EntryName(entry)
        is_dir == f[entry].kind = "dir"
        full_path == IF HasChar(w, "/") /\ dir_path # DotSlash
                     THEN TrimEndSlashes(dir_path) \o <<"/">> \o file_name
                     ELSE file_name
    IN  Pair(IF is_dir THEN file_name \o <<"/">> ELSE file_name,
             IF is_dir THEN full_path \o <<"/">> ELSE full_path \o <<SP>>)

\* lines 183-215: the entries of the directory in the order of the listing
RECURSIVE PushEntries(_, _, _, _, _)
PushEntries(f, cands, listing, w, split) ==
    IF listing = <<>> THEN cands
    ELSE LET file_name == EntryName(Head(listing)) IN
         PushEntries(f,
            IF StartsWith(file_name, split.file_prefix) /\ ~StartsWith(file_name, <<".">>)
            THEN Append(cands, ArgumentPair(f, w, split.dir_path, Head(listing)))
            ELSE cands,
            Tail(listing), w, split)

\* lines 162-217
ArgumentCandidates(f, dir, w) ==
    {PushEntries(f, <<>>, listing, w, DirAndPrefix(w)) :
        listing \in ReadDir(f, dir, DirAndPrefix(w).dir_path)}

\* the characters in the order of their first byte in UTF-8
ByteOrder ==
    <<TAB, SP, DQ, SQ, ".", "/", "1", "2", ":", ";", ">", BS,
      "a", "b", "c", "d", "e", "f", "g", "h", "i", "j", "k", "l", "m",
      "n", "o", "p", "q", "r", "s", "t", "u", "v", "w", "x", "y", "z",
      "|", "~", NBSP>>

Code(c) == CHOOSE i \in DOMAIN ByteOrder : ByteOrder[i] = c

\* Ord for String: the order of the bytes, a prefix before its extensions
RECURSIVE StrLess(_, _)
StrLess(s, t) ==
    IF t = <<>> THEN FALSE
    ELSE IF s = <<>> THEN TRUE
    ELSE IF Head(s) = Head(t) THEN StrLess(Tail(s), Tail(t))
    ELSE Code(Head(s)) < Code(Head(t))

\* the place of c in a sorted list: after every element that is not greater
RECURSIVE InsertByDisplay(_, _)
InsertByDisplay(sorted, c) ==
    IF sorted = <<>> THEN <<c>>
    ELSE IF StrLess(c.display, Head(sorted).display) THEN <<c>> \o sorted
    ELSE <<Head(sorted)>> \o InsertByDisplay(Tail(sorted), c)

\* line 219: a stable sort by display
RECURSIVE SortByDisplay(_)
SortByDisplay(cands) ==
    IF cands = <<>> THEN <<>>
    ELSE InsertByDisplay(SortByDisplay(SubSeq(cands, 1, Len(cands) - 1)),
                         cands[Len(cands)])

\* the world complete is called in: the directories of the shell's world,
\* with a file /bb next to the directory /b and a hidden file /.c
P_bb == <<"/", "b", "b">>
P_dotc == <<"/", ".", "c">>

CompFs == InitialFs @@ (P_bb :> PlainFile) @@ (P_dotc :> PlainFile)

\* the lines complete is called with; the cursor is at any char boundary
CompLines ==
    { <<>>,
      <<"e">>,
      <<"p", "w">>,
      <<"p", SP>>,
      <<"p", SP, "b">>,
      <<"p", TAB, "b">>,
      <<"p", SP, "b", "/">>,
      <<"p", SP, "b", "/", "p">>,
      <<"p", SP>> \o P_bx,
      <<"p", SP, "h", "/", "x">>,
      <<"p", SP, ".">>,
      <<"p", SP, "|", SP, "x">>,
      <<"p", ";", SP, "e">>,
      <<"p", SP, "|", "x">>,
      <<"p", NBSP, "b">>,
      <<NBSP, SP, "e">> }

CompInit ==
    /\ comp_line \in CompLines
    /\ cursor \in {ByteOffset(comp_line, k) : k \in 0..Len(comp_line)}
    /\ start = 0
    /\ candidates = <<>>
    /\ cpc = "called"
    /\ cwd \in {Root, P_h}
    /\ fs = CompFs
    /\ env_PATH \in {NoEnt, P_b, P_h \o <<":">> \o P_b}
    /\ env_HOME = NoEnt
    /\ pc = "off"
    /\ cause = "none"
    /\ line = NoLine
    /\ parsed_args = <<>>
    /\ out = NoOut
    /\ err = NoErr
    /\ child = NoChild
    /\ input = <<>>
    /\ chars = <<>>
    /\ current_arg = <<>>
    /\ quote_state = NoQuote
    /\ args = <<>>
    /\ tpc = "idle"

\* line 121: &line[start..pos]
word == Slice(comp_line, WordStart(comp_line, cursor), cursor)

\* line 123: &line[..start]
before_word == Slice(comp_line, 0, WordStart(comp_line, cursor))

\* lines 118-120 went through: start is a char boundary of the line
Sliced == cpc = "called" /\ IsCharBoundary(comp_line, WordStart(comp_line, cursor))

\* lines 128-161, 219-220
CompleteCommand ==
    /\ Sliced
    /\ is_command_pos(before_word)
    /\ \E cands \in CommandCandidates(fs, cwd, env_PATH, word) :
            candidates' = SortByDisplay(cands)
    /\ start' = WordStart(comp_line, cursor)
    /\ cpc' = "returned"
    /\ UNCHANGED <<comp_line, cursor, tokvars, replvars>>

\* lines 162-217, 219-220
CompleteArgument ==
    /\ Sliced
    /\ ~is_command_pos(before_word)
    /\ \E cands \in ArgumentCandidates(fs, cwd, word) :
            candidates' = SortByDisplay(cands)
    /\ start' = WordStart(comp_line, cursor)
    /\ cpc' = "returned"
    /\ UNCHANGED <<comp_line, cursor, tokvars, replvars>>

\* line 121: slicing a str at an offset inside a character panics
CompletePanic ==
    /\ cpc = "called"
    /\ ~IsCharBoundary(comp_line, WordStart(comp_line, cursor))
    /\ cpc' = "panicked"
    /\ UNCHANGED <<comp_line, cursor, start, candidates, tokvars, replvars>>

CompNext ==
    \/ CompleteCommand
    \/ CompleteArgument
    \/ CompletePanic

CompSpec == CompInit /\ [][CompNext]_vars

\* ------------------------------------------------------------------------
\* Helpers of the properties
\* ------------------------------------------------------------------------
Consumed == SubSeq(input, 1, Len(input) - Len(chars))

\* ------------------------------------------------------------------------
\* Properties of the tokenizer
\* ------------------------------------------------------------------------

\* C1: outside quotes a backslash is dropped and exactly the next character,
\* whatever it is, is appended to the current token: no token ends and the
\* quote state does not change.
C1_EscapeOutsideQuotes ==
    [][(Scanning /\ Head(chars) = BS /\ quote_state = NoQuote /\ Len(chars) >= 2)
        => /\ current_arg' = Append(current_arg, chars[2])
           /\ chars' = SubSeq(chars, 3, Len(chars))
           /\ quote_state' = NoQuote
           /\ args' = args]_vars

\* `a\ b` is the single token `a b`
C1_Witness ==
    /\ tpc = "done"
    /\ input = <<"a", BS, SP, "b">>
    /\ args = << <<"a", SP, "b">> >>

\* C2: inside double quotes a backslash before `"` or `\` appends only that
\* character and leaves the region open; a backslash before any other
\* character appends the backslash and the character.
C2_EscapeInDoubleQuotes ==
    [][(Scanning /\ Head(chars) = BS /\ quote_state = DQ /\ Len(chars) >= 2)
        => /\ current_arg' =
                 IF chars[2] \in {DQ, BS}
                 THEN Append(current_arg, chars[2])
                 ELSE current_arg \o <<BS, chars[2]>>
           /\ chars' = SubSeq(chars, 3, Len(chars))
           /\ quote_state' = DQ
           /\ args' = args]_vars

\* `"\""` is the single token `"`
C2_Witness ==
    /\ tpc = "done"
    /\ input = <<DQ, BS, DQ, DQ>>
    /\ args = << <<DQ>> >>

\* C3: inside single quotes every character but the single quote is appended
\* as it is, and only a single quote ends the region.
C3_SingleQuoteLiteral ==
    [][(Scanning /\ quote_state = SQ)
        => /\ chars' = Tail(chars)
           /\ args' = args
           /\ IF Head(chars) = SQ
              THEN quote_state' = NoQuote /\ current_arg' = current_arg
              ELSE quote_state' = SQ /\ current_arg' = Append(current_arg, Head(chars))]_vars

\* `'\"'` followed by a space is the token `\"`
C3_Witness ==
    /\ tpc = "done"
    /\ input = <<SQ, BS, DQ, SQ>>
    /\ args = << <<BS, DQ>> >>

IsBlank(s) == \A i \in 1..Len(s) : s[i] \in {SP, TAB}

\* C4: no token is ever the empty string, and a line of nothing but spaces
\* and tabs gives no token at all.
C4_NoEmptyToken ==
    /\ \A i \in 1..Len(args) : args[i] # <<>>
    /\ (tpc = "done" /\ IsBlank(input)) => args = <<>>
    /\ (quote_state = NoQuote /\ IsBlank(Consumed)) => args = <<>>

\* two tokens separated by a run of whitespace
C4_Witness ==
    /\ tpc = "done"
    /\ input = <<"a", SP, TAB, "b">>
    /\ args = << <<"a">>, <<"b">> >>

Retokenized == parse_command_line(JoinWith(args, SP))

\* C5 as stated: for a line without quote characters, the tokens joined by
\* single spaces tokenize to the same tokens.
C5_Original ==
    (tpc = "done" /\ ~HasChar(input, DQ) /\ ~HasChar(input, SQ))
        => Retokenized = args

\* C5 amended: the same for a line with neither quote characters nor
\* backslashes.
C5_RejoinIdempotent ==
    (tpc = "done" /\ ~HasChar(input, DQ) /\ ~HasChar(input, SQ) /\ ~HasChar(input, BS))
        => Retokenized = args

C5_Witness ==
    /\ tpc = "done"
    /\ input = <<SP, "a", TAB, "b">>
    /\ args = << <<"a">>, <<"b">> >>
    /\ Retokenized = args

\* ------------------------------------------------------------------------
\* Properties of the dispatcher and the loop
\* ------------------------------------------------------------------------

\* the arguments of the last line: parsed_args[1..] (line 260)
LineArgs == IF parsed_args = <<>> THEN <<>> ELSE Tail(parsed_args)

\* the position of the first redirection operator among the arguments, 0
\* when there is none
FirstOperator(a) ==
    IF \E i \in 1..Len(a) : a[i] \in RedirectOps
    THEN CHOOSE i \in 1..Len(a) :
            /\ a[i] \in RedirectOps
            /\ \A j \in 1..(i - 1) : a[j] \notin RedirectOps
    ELSE 0

\* the first operator of the arguments is followed by a file name
HasClause(a) == FirstOperator(a) # 0 /\ FirstOperator(a) < Len(a)

WithoutClause(a) ==
    SubSeq(a, 1, FirstOperator(a) - 1) \o SubSeq(a, FirstOperator(a) + 2, Len(a))

\* C6 as stated: a child launched for a line with a redirection clause gets
\* the arguments of the line without the two tokens of the clause, those
\* after the clause included.
C6_ChildGetsRemainingArgs ==
    (child # NoChild /\ HasClause(LineArgs))
        => child.args = WithoutClause(LineArgs)

\* one step of C7: the operator of the clause selects the stream and the
\* mode.  A step
\* that launches a child for a line with a clause leaves, in the file of the
\* clause, the child's output alone after >, 1>, 2> and the previous content
\* followed by the child's output after >>, 1>>, 2>>; the output is that of
\* stdout for >, 1>, >>, 1>> and that of stderr for 2>, 2>>; the other
\* stream is not redirected and no other file is created or changed.
C7_Step ==
    LET a == LineArgs'
        op == a[FirstOperator(a)]
        file == Resolve(fs', cwd, a[FirstOperator(a) + 1])
        stream == IF op \in {OP_gt, OP_1gt, OP_gtgt, OP_1gtgt} THEN "stdout" ELSE "stderr"
        own == Chunk(stream, child'.args)
        before == IF file \in DOMAIN fs THEN fs[file].data ELSE <<>>
    IN  (child' # NoChild /\ HasClause(a))
            => /\ file # NoEnt
               /\ fs'[file].data =
                     IF op \in {OP_gt, OP_1gt, OP_2gt} THEN <<own>>
                     ELSE Append(before, own)
               /\ child'.stdout = (IF stream = "stdout" THEN file ELSE NoEnt)
               /\ child'.stderr = (IF stream = "stderr" THEN file ELSE NoEnt)
               /\ DOMAIN fs' = DOMAIN fs \cup {file}
               /\ \A q \in DOMAIN fs : q # file => fs'[q] = fs[q]

\* C7: every step of the loop selects the stream and the mode by the first
\* operator of the line, as C7_Step says.
C7_RedirectStreamAndMode == [][C7_Step]_vars

\* `p a > /h/f` and then `p a 2>> /h/f`: stdout of the first, then stderr of
\* the second
C7_Witness ==
    /\ line = Line(<<<<"p">>, <<"a">>, OP_2gtgt, P_hf>>)
    /\ child # NoChild
    /\ child.stderr = P_hf
    /\ fs[P_hf].data = <<Chunk("stdout", <<<<"a">>>>), Chunk("stderr", <<<<"a">>>>)>>

\* the directory a cd line names, NoEnt when HOME is needed and not set
CdTarget(item) ==
    IF item = S_dotdot THEN PathPop(cwd)
    ELSE IF item = S_tilde THEN env_HOME
    ELSE PathJoin(cwd, item)

\* one step of C8 as stated: whatever the form of the path, a cd to a target
\* that is not an existing directory reports an error, leaves the working
\* directory as it was and the loop goes on reading.
C8_Step ==
    LET t == parsed_args' IN
    (/\ pc = "Reading"
     /\ Len(t) >= 2 /\ t[1] = S_cd
     /\ CdTarget(t[2]) # NoEnt
     /\ ~IsDir(fs, cwd, CdTarget(t[2])))
        => /\ pc' = "Reading"
           /\ cwd' = cwd
           /\ err'.kind = "cd: No such file or directory"

\* C8: every cd to a target that is not an existing directory reports an
\* error, keeps the working directory and keeps the loop reading.
C8_CdFailureIsNotFatal == [][C8_Step]_vars

\* one step of C9 as stated: the loop leaves Reading only by an exit line,
\* end of input or a read error.
C9_Step ==
    (pc = "Reading" /\ pc' # "Reading")
        => \/ cause' = "exit" /\ parsed_args' # <<>> /\ parsed_args'[1] = S_exit
           \/ cause' = "eof"
           \/ cause' = "read_error"

\* C9: every step that leaves Reading is an exit line, end of input or a
\* read error.
C9_OnlyExitEofOrReadErrorEnd == [][C9_Step]_vars

\* C10 as stated: a path the resolver returned is a regular file with an
\* execute permission bit.
C10_ResolvedIsRegularFile ==
    (out.kind = "is")
        => /\ ExecBitSet(fs, cwd, out.path)
           /\ IsRegularFile(fs, cwd, out.path)

\* the directories of PATH in which name has an execute permission bit
MatchingEntries(name) ==
    IF env_PATH = NoEnt THEN {}
    ELSE {i \in 1..Len(SplitPaths(env_PATH)) :
            ExecBitSet(fs, cwd, PathJoin(SplitPaths(env_PATH)[i], name))}

\* directory/name for the leftmost of them, NoEnt when there is none
LeftmostMatch(name) ==
    IF MatchingEntries(name) = {} THEN NoEnt
    ELSE LET i == CHOOSE k \in MatchingEntries(name) :
                    \A j \in MatchingEntries(name) : k <= j
         IN  PathJoin(SplitPaths(env_PATH)[i], name)

\* the last line was `type name` for a name that is no builtin
TypedExternal ==
    Len(parsed_args) >= 2 /\ parsed_args[1] = S_type
        /\ parsed_args[2] \notin {S_echo, S_exit, S_type, S_pwd, S_cd}

\* the last line was a command that is none of type, pwd, cd, exit
RanExternal ==
    parsed_args # <<>> /\ parsed_args[1] \notin {S_type, S_pwd, S_cd, S_exit}

\* C11: the resolver returns directory/name for the leftmost PATH directory
\* in which name exists with an execute permission bit, and nothing when
\* PATH is not set or no directory matches; seen in what `type name` prints
\* and in what is launched or reported for a command line.
C11_FirstMatchInPathOrder ==
    /\ TypedExternal =>
          IF LeftmostMatch(parsed_args[2]) = NoEnt
          THEN out = [kind |-> "not found", name |-> parsed_args[2], path |-> <<>>]
          ELSE out = [kind |-> "is", name |-> parsed_args[2],
                      path |-> LeftmostMatch(parsed_args[2])]
    /\ RanExternal =>
          /\ (LeftmostMatch(parsed_args[1]) = NoEnt) <=> (err.kind = "command not found")
          /\ child # NoChild => child.path = LeftmostMatch(parsed_args[1])

\* PATH=/h:/b: /h/p has no execute bit and is skipped, p is /b/p; x is
\* executable in both and is /h/x
C11_Witness ==
    /\ env_PATH = P_h \o <<":">> \o P_b
    /\ \/ out = [kind |-> "is", name |-> <<"p">>, path |-> P_bp]
       \/ out = [kind |-> "is", name |-> <<"x">>, path |-> P_hx]

\* C12 as stated: a line whose command is one of echo, exit, type, pwd, cd is
\* never looked up on PATH nor launched: it is not reported as not found and
\* no child is started for it.
C12_BuiltinsNeverLaunched ==
    (parsed_args # <<>> /\ parsed_args[1] \in {S_echo, S_exit, S_type, S_pwd, S_cd})
        => /\ err.kind # "command not found"
           /\ err.kind # "Error executing"
           /\ child = NoChild

\* C13: `type name` reports a builtin exactly for echo, exit, type, pwd, cd,
\* whatever is on PATH; for another name it reports the path the resolver
\* returns, or not found when it returns nothing.
C13_TypeReport ==
    (Len(parsed_args) >= 2 /\ parsed_args[1] = S_type)
        => LET name == parsed_args[2]
               path == find_executable_in_path(fs, cwd, env_PATH, name)
           IN  /\ (out.kind = "builtin") <=> (name \in {S_echo, S_exit, S_type, S_pwd, S_cd})
               /\ out.kind \in {"builtin", "is", "not found"}
               /\ out.name = name
               /\ out.kind = "is" => out.path = path /\ path # NoEnt
               /\ out.kind = "not found" => path = NoEnt

\* `type echo` with /b/echo executable on PATH
C13_Witness ==
    /\ out = [kind |-> "builtin", name |-> S_echo, path |-> <<>>]
    /\ find_executable_in_path(fs, cwd, env_PATH, S_echo) = P_becho

\* ------------------------------------------------------------------------
\* More properties of the tokenizer
\* ------------------------------------------------------------------------
IsQuoteChar(c) == c = DQ \/ c = SQ

\* C17 as stated: no quote character is ever part of a token.
C17_NoQuoteCharInToken ==
    /\ \A i \in 1..Len(args) : ~HasChar(args[i], DQ) /\ ~HasChar(args[i], SQ)
    /\ ~HasChar(current_arg, DQ) /\ ~HasChar(current_arg, SQ)

\* a step at a quote character: it opens a region when no quote is active,
\* closes a region of its own kind, and is appended inside a region of the
\* other kind
QuoteStep ==
    (Scanning /\ IsQuoteChar(Head(chars)))
        => /\ chars' = Tail(chars)
           /\ args' = args
           /\ IF quote_state = NoQuote
              THEN quote_state' = Head(chars) /\ current_arg' = current_arg
              ELSE IF quote_state = Head(chars)
              THEN quote_state' = NoQuote /\ current_arg' = current_arg
              ELSE /\ quote_state' = quote_state
                   /\ current_arg' = Append(current_arg, Head(chars))

\* a step at a backslash before a quote character, outside single quotes:
\* the quote character is appended and the quote state stays
EscapedQuoteStep ==
    (/\ Scanning /\ Head(chars) = BS /\ Len(chars) >= 2
     /\ IsQuoteChar(chars[2]) /\ quote_state # SQ)
        => /\ chars' = SubSeq(chars, 3, Len(chars))
           /\ quote_state' = quote_state
           /\ current_arg' # <<>>
           /\ current_arg'[Len(current_arg')] = chars[2]

\* C17 amended: a quote character met while no quote is active opens a
\* region, one met inside a region of its own kind closes it, and neither is
\* appended to a token; a quote character inside a region of the other kind,
\* or escaped by a backslash, is appended and changes no quote state.
C17_QuoteTogglesOrIsLiteral == [][QuoteStep /\ EscapedQuoteStep]_vars

\* `"'a"` is the single token `'a`
C17_Witness ==
    /\ tpc = "done"
    /\ input = <<DQ, SQ, "a", DQ>>
    /\ args = << <<SQ, "a">> >>

\* the number of backslashes the string ends with
RECURSIVE TrailingBackslashes(_)
TrailingBackslashes(str) ==
    IF str # <<>> /\ str[Len(str)] = BS
    THEN 1 + TrailingBackslashes(SubSeq(str, 1, Len(str) - 1))
    ELSE 0

\* the input ended right after a backslash that escapes nothing
EndsAfterBackslash == TrailingBackslashes(input) % 2 = 1

\* the input with what would end its open quote or complete its last
\* backslash
ClosedInput ==
    IF quote_state = SQ THEN Append(input, SQ)
    ELSE IF quote_state = DQ
    THEN (IF EndsAfterBackslash THEN input \o <<BS, DQ>> ELSE Append(input, DQ))
    ELSE IF EndsAfterBackslash THEN SubSeq(input, 1, Len(input) - 1)
    ELSE input

\* C18: the scan of every input goes on to its end and returns; when it ends
\* inside a quote or right after a backslash the result is that of the input
\* with the quote closed, and a non-empty accumulator is the last token.
C18_UnterminatedQuoteFlushed ==
    /\ tpc = "scan" => ENABLED TokNext
    /\ tpc = "done" =>
          /\ chars = <<>>
          /\ args = parse_command_line(ClosedInput)
          /\ current_arg # <<>> =>
                args # <<>> /\ args[Len(args)] = current_arg

\* `a "b` ends inside the quote: the tokens are a and b
C18_Witness ==
    /\ tpc = "done"
    /\ input = <<"a", SP, DQ, "b">>
    /\ quote_state = DQ
    /\ args = << <<"a">>, <<"b">> >>

\* the last line is dispatched to the external arm (line 308) and its
\* command resolves
ResolvedExternal(t) ==
    /\ t # <<>>
    /\ t[1] \notin {S_type, S_pwd, S_cd, S_exit}
    /\ find_executable_in_path(fs, cwd, env_PATH, t[1]) # NoEnt

\* the file of the clause of the arguments a, NoEnt when it cannot be opened
ClauseFile(a) == OpenPath(fs, cwd, a[FirstOperator(a) + 1])

\* a step at a resolved command whose redirection file cannot be opened
\* prints the error with the file name, starts no child, changes no file and
\* keeps reading
C19_FailedOpenStep ==
    LET t == parsed_args'
        a == LineArgs'
    IN  (/\ pc = "Reading" /\ ResolvedExternal(t)
         /\ HasClause(a) /\ ClauseFile(a) = NoEnt)
            => /\ err' = [kind |-> "Error creating file",
                          name |-> a[FirstOperator(a) + 1]]
               /\ child' = NoChild
               /\ fs' = fs
               /\ pc' = "Reading"

\* a step that starts a child is at a resolved command and, when the line
\* has a clause, its file was opened; the child is the one process of the
\* line, started from the loop in Reading
C19_LaunchStep ==
    LET t == parsed_args'
        a == LineArgs'
    IN  child' # NoChild
            => /\ pc = "Reading"
               /\ ResolvedExternal(t)
               /\ child'.path = find_executable_in_path(fs, cwd, env_PATH, t[1])
               /\ HasClause(a) => ClauseFile(a) # NoEnt

\* C19: when the redirection file of a resolved command cannot be opened the
\* shell reports an error naming the file, launches no child and goes on
\* reading; a child is launched (one per line) only after the command
\* resolved and, with a redirection clause, after the file was opened.
C19_FailedOpenLaunchesNothing == [][C19_FailedOpenStep /\ C19_LaunchStep]_vars

\* `p a > /h` with p on PATH: /h is a directory and cannot be opened
C19_Witness ==
    /\ line = Line(<<<<"p">>, <<"a">>, OP_gt, P_h>>)
    /\ find_executable_in_path(fs, cwd, env_PATH, <<"p">>) # NoEnt
    /\ err = [kind |-> "Error creating file", name |-> P_h]
    /\ child = NoChild
    /\ pc = "Reading"

\* a step that changes the working directory is a cd line with an argument
\* whose target is an existing directory, and the directory becomes that one
C20_Step ==
    LET t == parsed_args' IN
    cwd' # cwd
        => /\ pc = "Reading"
           /\ Len(t) >= 2 /\ t[1] = S_cd
           /\ CdTarget(t[2]) # NoEnt
           /\ IsDir(fs, cwd, CdTarget(t[2]))
           /\ cwd' = Resolve(fs, cwd, CdTarget(t[2]))

\* C20: the working directory is changed only by a cd line with an argument
\* whose target is an existing directory; every other line, and an
\* interrupted read, leaves it as it was.
C20_OnlyCdChangesCwd == [][C20_Step]_vars

\* `cd /b` from /h, then a line that is not a cd: the directory stays /b
C20_Witness ==
    /\ cwd = P_b
    /\ parsed_args # <<>>
    /\ parsed_args[1] # S_cd
    /\ pc = "Reading"

\* ------------------------------------------------------------------------
\* Properties of the completer
\* ------------------------------------------------------------------------
\* complete returned in argument-position mode
ReturnedArgument == cpc = "returned" /\ ~is_command_pos(before_word)

\* complete returned in command-position mode
ReturnedCommand == cpc = "returned" /\ is_command_pos(before_word)

CandidateSet == {candidates[i] : i \in DOMAIN candidates}

\* the word up to its last separator, the separator included; empty when
\* the word has none
DirPortion(w) == SubSeq(w, 1, LastSlash(w))

\* the word after its last separator
PrefixPortion(w) == SubSeq(w, LastSlash(w) + 1, Len(w))

\* the entries of the directory portion of w, of the working directory
\* when the portion is empty
PortionEntries(w) ==
    IF DirPortion(w) = <<>> THEN DirEntries(fs, Resolve(fs, cwd, DotSlash))
    ELSE IF IsDir(fs, cwd, DirPortion(w))
    THEN DirEntries(fs, Resolve(fs, cwd, DirPortion(w)))
    ELSE {}

\* the candidate of an entry: its name as display, the directory portion
\* and the name as replacement, `/` after a directory and a space after a
\* file
PortionPair(w, entry) ==
    IF fs[entry].kind = "dir"
    THEN Pair(EntryName(entry) \o <<"/">>, DirPortion(w) \o EntryName(entry) \o <<"/">>)
    ELSE Pair(EntryName(entry), DirPortion(w) \o EntryName(entry) \o <<SP>>)

\* C14 as stated: in argument position the word is split at its last
\* separator, the candidates are the entries (not hidden) of the directory
\* before the separator whose names start with what follows it, the empty
\* prefix when the word ends with `/`, and each replacement is the full
\* relative path.
C14_SplitAtLastSeparator ==
    ReturnedArgument
        => CandidateSet =
              {PortionPair(word, entry) :
                  entry \in {e \in PortionEntries(word) :
                                /\ StartsWith(EntryName(e), PrefixPortion(word))
                                /\ ~StartsWith(EntryName(e), <<".">>)}}

\* no candidate is before an earlier one in the order of the display texts
SortedByDisplay(cands) ==
    \A i \in DOMAIN cands : \A j \in DOMAIN cands :
        i < j => ~StrLess(cands[j].display, cands[i].display)

\* the byte offset just after the last whitespace character before the
\* cursor, 0 when there is none
AfterNearestWhitespace ==
    LET head == Slice(comp_line, 0, cursor) IN
    ByteOffset(head, LastWhitespace(head))

\* C15 as stated: for every line and cursor offset complete returns, its
\* candidates are sorted ascending by display text and replace_from is the
\* offset just after the nearest whitespace character before the cursor.
C15_SortedAndWordStart ==
    cpc # "called"
        => /\ cpc = "returned"
           /\ SortedByDisplay(candidates)
           /\ start = AfterNearestWhitespace

\* the names of the entries of the PATH directories with an execute bit
PathExecutableNames ==
    IF env_PATH = NoEnt THEN {}
    ELSE {EntryName(e) :
            e \in {q \in DOMAIN fs :
                    /\ q # Root
                    /\ fs[q].exec
                    /\ \E i \in DOMAIN SplitPaths(env_PATH) :
                          /\ IsDir(fs, cwd, SplitPaths(env_PATH)[i])
                          /\ PathPop(q) = Resolve(fs, cwd, SplitPaths(env_PATH)[i])}}

\* C16: in command position no two candidates have the same display; the
\* displays are the builtins and the executable entries of the PATH
\* directories that start with the word, each once, and every replacement
\* is the display followed by one space.
C16_CommandNamesOnce ==
    ReturnedCommand
        => /\ \A i \in DOMAIN candidates : \A j \in DOMAIN candidates :
                 i # j => candidates[i].display # candidates[j].display
           /\ \A i \in DOMAIN candidates :
                 /\ StartsWith(candidates[i].display, word)
                 /\ candidates[i].replacement = candidates[i].display \o <<SP>>
           /\ {candidates[i].display : i \in DOMAIN candidates} =
                 {n \in Builtins \cup PathExecutableNames : StartsWith(n, word)}

\* the empty line with PATH=/h:/b: x is executable in /h and in /b, echo is
\* a builtin and a program of /b, and each is listed once
C16_Witness ==
    /\ ReturnedCommand
    /\ word = <<>>
    /\ fs[P_hx].exec /\ fs[P_bx].exec /\ fs[P_becho].exec
    /\ env_PATH = P_h \o <<":">> \o P_b
    /\ Cardinality({i \in DOMAIN candidates : candidates[i].display = <<"x">>}) = 1
    /\ Cardinality({i \in DOMAIN candidates : candidates[i].display = S_echo}) = 1

====
